---- MODULE Spec2Model ----
(***************************************************************************)
(* Universal Alloy Strength Predictor (src/app.py).                        *)
(*                                                                         *)
(* The estimator works on Python floats, i.e. IEEE-754 binary64 values     *)
(* with round-to-nearest-even arithmetic.  The model keeps that            *)
(* arithmetic: a float is a record [k, s, m, e] of a class ("fin", "inf",  *)
(* "nan"), a sign, a 53-bit significand and a binary exponent, so that     *)
(* value = (-1)^s * m * 2^e.  Significands do not fit the model checker's  *)
(* integers, so naturals are little-endian sequences of 15-bit limbs.      *)
(***************************************************************************)
EXTENDS Integers, Sequences, FiniteSets, TLC

(***************************************************************************)
(* Naturals of arbitrary size.                                             *)
(***************************************************************************)
LimbBits == 14 + 1
Base == 2^LimbBits

RECURSIVE NNorm(_)
NNorm(a) == IF a = <<>> THEN <<>>
            ELSE IF a[Len(a)] = 0 THEN NNorm(SubSeq(a, 1, Len(a) - 1))
            ELSE a

RECURSIVE NFromInt(_)
NFromInt(n) == IF n = 0 THEN <<>> ELSE <<n % Base>> \o NFromInt(n \div Base)

RECURSIVE NToInt(_)
NToInt(a) == IF a = <<>> THEN 0 ELSE Head(a) + Base * NToInt(Tail(a))

RECURSIVE NAddC(_, _, _)
NAddC(a, b, c) ==
    IF a = <<>> /\ b = <<>> THEN (IF c = 0 THEN <<>> ELSE <<c>>)
    ELSE LET x == (IF a = <<>> THEN 0 ELSE Head(a))
                  + (IF b = <<>> THEN 0 ELSE Head(b)) + c
         IN <<x % Base>> \o NAddC(IF a = <<>> THEN <<>> ELSE Tail(a),
                                  IF b = <<>> THEN <<>> ELSE Tail(b),
                                  x \div Base)

NAdd(a, b) == NAddC(a, b, 0)

\* a - b for a >= b, limb by limb with a borrow
RECURSIVE NSubB(_, _, _)
NSubB(a, b, br) ==
    IF a = <<>> THEN <<>>
    ELSE LET x == Head(a) - (IF b = <<>> THEN 0 ELSE Head(b)) - br
         IN <<x % Base>> \o NSubB(Tail(a),
                                  IF b = <<>> THEN <<>> ELSE Tail(b),
                                  IF x < 0 THEN 1 ELSE 0)

NSub(a, b) == NNorm(NSubB(a, b, 0))

\* -1, 0, 1 as a < b, a = b, a > b (normalised operands)
RECURSIVE NCmpAt(_, _, _)
NCmpAt(a, b, i) ==
    IF i = 0 THEN 0
    ELSE IF a[i] < b[i] THEN -1
    ELSE IF a[i] > b[i] THEN 1
    ELSE NCmpAt(a, b, i - 1)

NCmp(a, b) == IF Len(a) < Len(b) THEN -1
              ELSE IF Len(a) > Len(b) THEN 1
              ELSE NCmpAt(a, b, Len(a))

RECURSIVE NMulSmallC(_, _, _)
NMulSmallC(a, k, c) ==
    IF a = <<>> THEN (IF c = 0 THEN <<>> ELSE <<c>>)
    ELSE LET x == Head(a) * k + c
         IN <<x % Base>> \o NMulSmallC(Tail(a), k, x \div Base)

\* a * k for 0 <= k < Base
NMulSmall(a, k) == IF k = 0 THEN <<>> ELSE NMulSmallC(a, k, 0)

RECURSIVE NMul(_, _)
NMul(a, b) ==
    IF a = <<>> \/ b = <<>> THEN <<>>
    ELSE LET rest == NMul(a, Tail(b))
         IN NAdd(NMulSmall(a, Head(b)),
                 IF rest = <<>> THEN <<>> ELSE <<0>> \o rest)

\* floor(a / d) for 0 < d < Base, from the most significant limb down
RECURSIVE NDivSmallR(_, _, _, _)
NDivSmallR(a, d, i, r) ==
    IF i = 0 THEN <<>>
    ELSE LET x == r * Base + a[i]
         IN NDivSmallR(a, d, i - 1, x % d) \o <<x \div d>>

NDivSmall(a, d) == NNorm(NDivSmallR(a, d, Len(a), 0))

Zeros(n) == [i \in 1..n |-> 0]

NShl(a, k) == IF a = <<>> THEN <<>>
              ELSE Zeros(k \div LimbBits) \o NMulSmall(a, 2^(k % LimbBits))

NShr(a, k) == IF k \div LimbBits >= Len(a) THEN <<>>
              ELSE NDivSmall(SubSeq(a, (k \div LimbBits) + 1, Len(a)),
                             2^(k % LimbBits))

RECURSIVE IntBitLen(_)
IntBitLen(n) == IF n = 0 THEN 0 ELSE 1 + IntBitLen(n \div 2)

NBitLen(a) == IF a = <<>> THEN 0
              ELSE LimbBits * (Len(a) - 1) + IntBitLen(a[Len(a)])

NBit(a, i) == IF (i \div LimbBits) + 1 > Len(a) THEN 0
              ELSE (a[(i \div LimbBits) + 1] \div 2^(i % LimbBits)) % 2

\* whether the k low bits of a are all zero
NLowZero(a, k) == NShl(NShr(a, k), k) = a

\* One step of binary long division by b > 0: q is the quotient so far and r2
\* the remainder so far with the next bit of the dividend shifted in.
NDivTake(b, q, r2) ==
    IF NCmp(r2, b) >= 0
    THEN <<NAdd(NShl(q, 1), <<1>>), NSub(r2, b)>>
    ELSE <<NShl(q, 1), r2>>

\* st = <<q, r>> for the bits of a above bit i; the result takes bit i in
NDivStep(a, b, st, i) ==
    NDivTake(b, st[1], NAdd(NShl(st[2], 1), NFromInt(NBit(a, i))))

\* the steps for bits hi-1 down to lo; the upper half is evaluated in full
\* before the lower half starts
RECURSIVE NDivSteps(_, _, _, _, _)
NDivSteps(a, b, st, hi, lo) ==
    IF hi <= lo THEN st
    ELSE IF hi = lo + 1 THEN NDivStep(a, b, st, lo)
    ELSE LET mid  == (hi + lo) \div 2
             half == NDivSteps(a, b, st, hi, mid)
         IN IF Len(half) = 2 THEN NDivSteps(a, b, half, mid, lo) ELSE half

\* a mod d for 0 < d < Base
RECURSIVE NModSmallR(_, _, _, _)
NModSmallR(a, d, i, r) ==
    IF i = 0 THEN r ELSE NModSmallR(a, d, i - 1, (r * Base + a[i]) % d)

NModSmall(a, d) == NModSmallR(a, d, Len(a), 0)

\* <<floor(a / b), a mod b>> for b > 0
NDivMod(a, b) ==
    IF Len(b) = 1 THEN <<NDivSmall(a, b[1]), NFromInt(NModSmall(a, b[1]))>>
    ELSE NDivSteps(a, b, <<<<>>, <<>>>>, NBitLen(a), 0)

(***************************************************************************)
(* Python floats: IEEE-754 binary64, round to nearest, ties to even.       *)
(***************************************************************************)
MantBits == 52 + 1
MinExp == 0 - 1074
MaxExp == 1023 - 52

NaN == [k |-> "nan", s |-> 0, m |-> <<>>, e |-> 0]
Inf(s) == [k |-> "inf", s |-> s, m |-> <<>>, e |-> 0]
Zero(s) == [k |-> "fin", s |-> s, m |-> <<>>, e |-> 0]

IsNaN(x) == x.k = "nan"
IsInf(x) == x.k = "inf"
IsZero(x) == x.k = "fin" /\ x.m = <<>>
IsFinite(x) == x.k = "fin"

Xor(a, b) == (a + b) % 2

\* A float from its sign, significand and exponent: zero, overflow or finite
FPack(s, m, e) ==
    IF m = <<>> THEN Zero(s)
    ELSE IF e > MaxExp THEN Inf(s)
    ELSE [k |-> "fin", s |-> s, m |-> m, e |-> e]

\* q rounded up when the dropped bits are above a half, or a half and q is odd
RoundUpIf(q, half, rest) ==
    IF half /\ (rest \/ NBit(q, 0) = 1) THEN NAdd(q, <<1>>) ELSE q

\* floor(M / 2^sh) rounded to nearest, ties to even, for sh > 0
NRoundShr(M, sh, sticky) ==
    RoundUpIf(NShr(M, sh), NBit(M, sh - 1) = 1, sticky \/ ~NLowZero(M, sh - 1))

\* a rounded significand that carried into bit MantBits moves up one exponent
FCarry(s, m1, e1) ==
    IF NBitLen(m1) > MantBits THEN FPack(s, NShr(m1, 1), e1 + 1)
    ELSE FPack(s, m1, e1)

\* the exponent of the float that holds an L-bit significand at exponent E
TargetExp(E, L) ==
    IF E + L - MantBits > MinExp THEN E + L - MantBits ELSE MinExp

FRoundTo(s, M, E, sticky, e1) ==
    IF e1 <= E THEN FPack(s, NShl(M, E - e1), e1)
    ELSE FCarry(s, NRoundShr(M, e1 - E, sticky), e1)

\* The float nearest to (-1)^s * (M + f) * 2^E, where 0 <= f < 1 and f > 0 iff
\* sticky; a sticky M has more than MantBits bits.
FRound(s, M, E, sticky) ==
    IF M = <<>> THEN Zero(s)
    ELSE FRoundTo(s, M, E, sticky, TargetExp(E, NBitLen(M)))

\* FRound of a tuple <<s, M, E, sticky>>
FRoundT(t) == FRound(t[1], t[2], t[3], t[4])

\* int -> float conversion (Python converts an int operand of a float operation)
FInt(n) == FRound(IF n < 0 THEN 1 ELSE 0, NFromInt(IF n < 0 THEN 0 - n ELSE n), 0, FALSE)

FNeg(x) == IF IsNaN(x) THEN x ELSE [x EXCEPT !.s = 1 - x.s]
FAbs(x) == IF IsNaN(x) THEN x ELSE [x EXCEPT !.s = 0]

\* x * y
FMul(x, y) ==
    IF IsNaN(x) \/ IsNaN(y) THEN NaN
    ELSE IF IsInf(x) \/ IsInf(y)
         THEN IF IsZero(x) \/ IsZero(y) THEN NaN ELSE Inf(Xor(x.s, y.s))
    ELSE FRound(Xor(x.s, y.s), NMul(x.m, y.m), x.e + y.e, FALSE)

\* |Mx - My| with the sign of the larger, c = NCmp(Mx, My) # 0
ExactDiff(sx, Mx, sy, My, e, c) ==
    IF c > 0 THEN <<sx, NSub(Mx, My), e, FALSE>>
    ELSE <<sy, NSub(My, Mx), e, FALSE>>

\* the exact sum of (-1)^sx * Mx * 2^e and (-1)^sy * My * 2^e, not zero
ExactSum(sx, Mx, sy, My, e) ==
    IF sx = sy THEN <<sx, NAdd(Mx, My), e, FALSE>>
    ELSE ExactDiff(sx, Mx, sy, My, e, NCmp(Mx, My))

\* x + y for finite nonzero x, y with x.e >= y.e, before rounding.  When y lies
\* wholly below the guard bits of x it only decides the direction of rounding,
\* as a sticky bit.
AddOrdered(x, y) ==
    IF x.e - y.e > 2 * MantBits
    THEN IF x.s = y.s THEN <<x.s, NShl(x.m, 3), x.e - 3, TRUE>>
         ELSE <<x.s, NSub(NShl(x.m, 3), <<1>>), x.e - 3, TRUE>>
    ELSE ExactSum(x.s, NShl(x.m, x.e - y.e), y.s, y.m, y.e)

\* whether finite nonzero x and y cancel exactly
Cancels(x, y) == x.s # y.s /\ x.e = y.e /\ x.m = y.m

\* x + y
FAdd(x, y) ==
    IF IsNaN(x) \/ IsNaN(y) THEN NaN
    ELSE IF IsInf(x) THEN (IF IsInf(y) /\ x.s # y.s THEN NaN ELSE x)
    ELSE IF IsInf(y) THEN y
    ELSE IF IsZero(x) /\ IsZero(y) THEN Zero(IF x.s = 1 /\ y.s = 1 THEN 1 ELSE 0)
    ELSE IF IsZero(x) THEN y
    ELSE IF IsZero(y) THEN x
    ELSE IF Cancels(x, y) THEN Zero(0)
    ELSE FRoundT(AddOrdered(IF x.e >= y.e THEN x ELSE y,
                            IF x.e >= y.e THEN y ELSE x))

\* x - y
FSub(x, y) == FAdd(x, FNeg(y))

\* FRound of a quotient and remainder qr at exponent e
FRoundQuot(s, qr, e) == FRound(s, qr[1], e, qr[2] # <<>>)

FDivShifted(s, a, ea, b, eb, sh) ==
    FRoundQuot(s, NDivMod(NShl(a, sh), b), ea - eb - sh)

\* The float nearest to (-1)^s * (a * 2^ea) / (b * 2^eb), for naturals a, b > 0:
\* a quotient of at least MantBits + 2 bits, the remainder kept as the sticky bit.
FDivNat(s, a, ea, b, eb) ==
    FDivShifted(s, a, ea, b, eb,
                IF MantBits + 2 + NBitLen(b) > NBitLen(a)
                THEN MantBits + 2 + NBitLen(b) - NBitLen(a) ELSE 0)

\* x / y for y # 0 (the only divisor in the program is the literal 0.2)
FDiv(x, y) ==
    IF IsNaN(x) \/ IsNaN(y) THEN NaN
    ELSE IF IsInf(x) THEN (IF IsInf(y) THEN NaN ELSE Inf(Xor(x.s, y.s)))
    ELSE IF IsInf(y) \/ IsZero(x) THEN Zero(Xor(x.s, y.s))
    ELSE FDivNat(Xor(x.s, y.s), x.m, x.e, y.m, y.e)

\* Order of non-NaN floats: -1, 0, 1.  Magnitudes of canonical floats compare
\* by class, then exponent, then significand.
MagRank(x) == IF IsInf(x) THEN 2 ELSE IF IsZero(x) THEN 0 ELSE 1
MagCmp(x, y) ==
    IF MagRank(x) # MagRank(y) THEN (IF MagRank(x) < MagRank(y) THEN -1 ELSE 1)
    ELSE IF MagRank(x) # 1 THEN 0
    ELSE IF x.e # y.e THEN (IF x.e < y.e THEN -1 ELSE 1)
    ELSE NCmp(x.m, y.m)
FCmp(x, y) ==
    IF IsZero(x) /\ IsZero(y) THEN 0
    ELSE IF x.s # y.s THEN (IF x.s = 1 THEN -1 ELSE 1)
    ELSE IF x.s = 0 THEN MagCmp(x, y) ELSE MagCmp(y, x)

\* x < y, x <= y, x > y, x == y, x != 0 as Python evaluates them (False on NaN)
FLt(x, y) == ~IsNaN(x) /\ ~IsNaN(y) /\ FCmp(x, y) < 0
FLe(x, y) == ~IsNaN(x) /\ ~IsNaN(y) /\ FCmp(x, y) <= 0
FGt(x, y) == FLt(y, x)
FGe(x, y) == FLe(y, x)
FEq(x, y) == ~IsNaN(x) /\ ~IsNaN(y) /\ FCmp(x, y) = 0

\* A decimal literal n / 10^d, read as Python reads it: the nearest float
RECURSIVE NPow10(_)
NPow10(d) == IF d = 0 THEN <<1>> ELSE NMulSmall(NPow10(d - 1), 10)
Dec(n, d) == IF n = 0 THEN Zero(0)
             ELSE FDivNat(IF n < 0 THEN 1 ELSE 0,
                          NFromInt(IF n < 0 THEN 0 - n ELSE n), 0, NPow10(d), 0)

\* M * 2^e rounded to the nearest integer, ties to even
NRoundInt(M, e) == IF e >= 0 THEN NShl(M, e) ELSE NRoundShr(M, 0 - e, FALSE)

\* abs(x) * 10 rounded to the nearest integer, ties to even: the decimal digits
\* that round(x, 1) keeps
Tenths(x) == NRoundInt(NMulSmall(x.m, 10), x.e)

\* the float nearest to (-1)^s * n / 10
FromTenths(s, n) ==
    IF n = <<>> THEN Zero(s) ELSE FDivNat(s, n, 0, <<10>>, 0)

\* round(x, 1): the float nearest to the correctly rounded one-decimal value of x;
\* a non-finite x is returned as it is
PyRound1(x) ==
    IF ~IsFinite(x) \/ IsZero(x) THEN x
    ELSE IF x.e >= 0 THEN x
    ELSE FromTenths(x.s, Tenths(x))

\* min(a, b) and max(a, b) of two arguments: the first one unless the second
\* compares strictly below (above) it
PyMin(a, b) == IF FLt(b, a) THEN b ELSE a
PyMax(a, b) == IF FGt(b, a) THEN b ELSE a

(***************************************************************************)
(* Base data (src/app.py, lines 8-34).                                     *)
(***************************************************************************)
\* variant: iron at the default base
BASE_HV_Fe100 ==
    [Fe |-> 100, Al |-> 70, Cu |-> 80, Ti |-> 100, Ni |-> 100, Co |-> 110,
     Mg |-> 60, Zn |-> 70]

BASE_HV ==
    [Fe |-> 120, Al |-> 70, Cu |-> 80, Ti |-> 100, Ni |-> 100, Co |-> 110,
     Mg |-> 60, Zn |-> 70]

ELEMENT_FACTOR ==
    [C |-> Dec(1800, 1), Cr |-> Dec(60, 1), Ni |-> Dec(50, 1), Mo |-> Dec(90, 1),
     Mn |-> Dec(30, 1), Si |-> Dec(20, 1), V |-> Dec(120, 1), Ti |-> Dec(80, 1),
     Al |-> Dec(30, 1), Cu |-> Dec(30, 1), Nb |-> Dec(140, 1), W |-> Dec(100, 1),
     Co |-> Dec(60, 1), Zn |-> Dec(10, 1), Sn |-> Dec(10, 1), Pb |-> Dec(-50, 1),
     S |-> Dec(-100, 1), P |-> Dec(-80, 1), B |-> Dec(600, 1), N |-> Dec(400, 1),
     O |-> Dec(-200, 1), SiO2 |-> Dec(-50, 1)]

DEFAULT_ELEM_FACTOR == Dec(20, 1)

HT_HV_MULT ==
    ("Annealing" :> Dec(8, 1)) @@ ("Normalizing" :> Dec(10, 1))
    @@ ("Hardening" :> Dec(12, 1)) @@ ("Tempering" :> Dec(105, 2))
    @@ ("Age hardening" :> Dec(125, 2)) @@ ("Carburizing" :> Dec(12, 1))
    @@ ("Nitriding" :> Dec(13, 1)) @@ ("Cyaniding" :> Dec(125, 2))
    @@ ("Stress relieving" :> Dec(98, 2)) @@ ("Quenching" :> Dec(135, 2))

HT_YS_FRAC ==
    ("Annealing" :> Dec(55, 2)) @@ ("Normalizing" :> Dec(65, 2))
    @@ ("Hardening" :> Dec(78, 2)) @@ ("Tempering" :> Dec(72, 2))
    @@ ("Age hardening" :> Dec(85, 2)) @@ ("Carburizing" :> Dec(80, 2))
    @@ ("Nitriding" :> Dec(90, 2)) @@ ("Cyaniding" :> Dec(85, 2))
    @@ ("Stress relieving" :> Dec(75, 2)) @@ ("Quenching" :> Dec(82, 2))

HV_TO_UTS == Dec(345, 2)

\* the literals of estimate_hv and uts_to_ys
\* variant: an unknown matrix taken for iron
IronBase == BASE_HV.Fe
DEFAULT_BASE_HV == 100
DEFAULT_HT_MULT == Dec(10, 1)
DEFAULT_YS_FRAC == Dec(8, 1)
HV_MIN == Dec(200, 1)
HV_MAX == Dec(12000, 1)

(***************************************************************************)
(* Python dicts.  A table with string keys is a function; a composition is *)
(* a dict in insertion order: a sequence of <<key, value>> pairs with      *)
(* distinct keys.                                                          *)
(***************************************************************************)
\* table.get(key, default)
TableGet(table, key, default) ==
    IF key \in DOMAIN table THEN table[key] ELSE default

DictHas(d, key) == \E i \in DOMAIN d : d[i][1] = key

\* d.get(key, default)
DictGet(d, key, default) ==
    IF DictHas(d, key) THEN d[CHOOSE i \in DOMAIN d : d[i][1] = key][2]
    ELSE default

\* d[key] = value: a new key is appended, an old one keeps its place
DictSet(d, key, value) ==
    IF DictHas(d, key)
    THEN [i \in DOMAIN d |-> IF d[i][1] = key THEN <<key, value>> ELSE d[i]]
    ELSE Append(d, <<key, value>>)

RECURSIVE SelectPairs(_, _)
SelectPairs(d, key) ==
    IF d = <<>> THEN <<>>
    ELSE IF Head(d)[1] # key THEN <<Head(d)>> \o SelectPairs(Tail(d), key)
    ELSE SelectPairs(Tail(d), key)

(***************************************************************************)
(* Core logic (src/app.py, lines 39-56).                                   *)
(***************************************************************************)
VARIABLE
    compensated    \* whether the interpreter's sum() compensates (CPython >= 3.12)

\* sum(xs) over floats, started from the int 0, folding left to right
RECURSIVE SumNaive(_, _)
SumNaive(acc, xs) ==
    IF xs = <<>> THEN acc ELSE SumNaive(FAdd(acc, Head(xs)), Tail(xs))

\* the low-order bits that t = f + x lost
Lost(f, x, t) ==
    IF FGe(FAbs(f), FAbs(x)) THEN FAdd(FSub(f, t), x) ELSE FAdd(FSub(x, t), f)

\* the same with the Neumaier compensation sum() applies to floats since
\* CPython 3.12: c collects the low-order bits lost by each addition
RECURSIVE SumNeumaier(_, _, _)
NeumaierStep(f, c, x, t, rest) == SumNeumaier(t, FAdd(c, Lost(f, x, t)), rest)
SumNeumaier(f, c, xs) ==
    IF xs = <<>>
    THEN (IF ~IsZero(c) /\ IsFinite(c) THEN FAdd(f, c) ELSE f)
    ELSE NeumaierStep(f, c, Head(xs), FAdd(f, Head(xs)), Tail(xs))

PySum(xs) ==
    IF xs = <<>> THEN Zero(0)
    ELSE IF compensated
         THEN SumNeumaier(FAdd(Zero(0), Head(xs)), Zero(0), Tail(xs))
         ELSE SumNaive(Zero(0), xs)

\* the literals of the carbon branch of estimate_hv
C_BREAK == Dec(2, 1)
C_RAMP == Dec(1200, 1)
C_STEEP == Dec(4000, 1)
C_FLAT == Dec(400, 1)

\* the carbon branch of estimate_hv
c_contrib(matrix, C) ==
    IF matrix = "Fe"
    THEN IF FLe(C, C_BREAK)
         THEN FMul(C_RAMP, FDiv(C, C_BREAK))
         ELSE FAdd(C_RAMP, FMul(C_STEEP, FSub(C, C_BREAK)))
    ELSE FMul(C_FLAT, C)

\* factor * pct of every entry of a dict, in its order
Products(d) ==
    [i \in DOMAIN d |->
        FMul(TableGet(ELEMENT_FACTOR, d[i][1], DEFAULT_ELEM_FACTOR), d[i][2])]

\* variant: the first entry skipped as the carbon entry
TermsAfterFirst(composition) ==
    IF composition = <<>> THEN <<>> ELSE Products(Tail(composition))

\* variant: the generic sum without its filter
AllTerms(composition) == Products(composition)

\* the generator of the generic sum: factor * pct of every entry but "C"
ElementTerms(composition) == Products(SelectPairs(composition, "C"))

contrib(composition) == PySum(ElementTerms(composition))

\* hv before rounding and clamping
raw_hv(matrix, composition, heat_treatment) ==
    LET base == TableGet(BASE_HV, matrix, DEFAULT_BASE_HV)
        ht   == TableGet(HT_HV_MULT, heat_treatment, DEFAULT_HT_MULT)
        C    == DictGet(composition, "C", Zero(0))
    IN FMul(FAdd(FAdd(FInt(base), c_contrib(matrix, C)), contrib(composition)), ht)

\* variants: the rounding without the clamp, the clamp without the rounding
RoundOnly(hv) == PyRound1(hv)
ClampOnly(hv) == PyMax(HV_MIN, PyMin(hv, HV_MAX))

\* max(20.0, min(round(hv, 1), 1200.0))
RoundClamp(hv) == PyMax(HV_MIN, PyMin(PyRound1(hv), HV_MAX))

estimate_hv(matrix, composition, heat_treatment) ==
    RoundClamp(raw_hv(matrix, composition, heat_treatment))

\* variant: the strength rounded like the hardness
hv_to_uts_rounded(hv) == PyRound1(FMul(hv, HV_TO_UTS))

hv_to_uts(hv) == FMul(hv, HV_TO_UTS)

\* variants: the multiplier's default for an unknown heat treatment; the
\* fraction divided out
uts_to_ys_neutral(uts, ht) == FMul(uts, TableGet(HT_YS_FRAC, ht, DEFAULT_HT_MULT))
uts_over_frac(uts, ht) == FDiv(uts, TableGet(HT_YS_FRAC, ht, DEFAULT_YS_FRAC))

uts_to_ys(uts, ht) == FMul(uts, TableGet(HT_YS_FRAC, ht, DEFAULT_YS_FRAC))

(***************************************************************************)
(* State of the program.                                                   *)
(***************************************************************************)
VARIABLES
    fn,            \* the core operation called last, "none" before any call
    arg,           \* its arguments
    ret,           \* its return value
    matrix, heat,  \* the script's globals of the same names
    comp,          \* the composition dict built by the form or from a row
    hv, uts, ys,   \* the last prediction of the running script, None before it
    df,            \* the uploaded table: [cols, rows], rows of cells
    row_i,         \* the number of rows the batch loop has finished
    results,       \* the batch loop's list of result records
    out,           \* the table shown after the loop: df with the result columns
    pc             \* "idle", "shown", "loop" (in the batch loop), "done", "error"

vars == <<compensated, fn, arg, ret, matrix, heat, comp, hv, uts, ys,
          df, row_i, results, out, pc>>
coreVars == <<fn, arg, ret>>
appVars == <<matrix, heat, comp, hv, uts, ys, df, row_i, results, out, pc>>

\* a variable that holds no float yet
None == [k |-> "none", s |-> 0, m |-> <<>>, e |-> 0]


(***************************************************************************)
(* Inputs of the model.                                                    *)
(***************************************************************************)
MaxElems == 3
MaxFields == 2
MaxRows == 2

\* 2^1023, a weight-percent whose product with any factor above 1 overflows
Huge == [k |-> "fin", s |-> 0, m |-> NShl(<<1>>, MantBits - 1), e |-> MaxExp]

\* injective sequences of at most n members of the set S
RECURSIVE SeqsUpTo(_, _)
SeqsUpTo(S, n) ==
    IF n = 0 THEN {<<>>}
    ELSE LET shorter == SeqsUpTo(S, n - 1)
         IN shorter \cup {Append(q, x) : q \in shorter, x \in S}

Keys(d) == {d[i][1] : i \in DOMAIN d}
DistinctKeys(d) == Cardinality(Keys(d)) = Len(d)

\* compositions handed to the core: an optional carbon entry, then entries of
\* an unknown element, an element of negative factor, a small weight-percent,
\* and a very large and a very large negative one (the products overflow)
CarbonEntries == {<<"C", Dec(2, 1)>>, <<"C", Dec(4, 1)>>, <<"C", Dec(10, 1)>>}
OtherEntries ==
    {<<"Xx", Dec(55002, 2)>>, <<"O", Dec(4002, 3)>>, <<"Ni", Dec(9, 2)>>,
     <<"W", Huge>>, <<"Nb", FNeg(Huge)>>}
Compositions ==
    {d \in SeqsUpTo(OtherEntries, MaxElems) : DistinctKeys(d)}
    \cup {<<c>> \o d : c \in CarbonEntries,
                      d \in {x \in SeqsUpTo(OtherEntries, MaxElems - 1) :
                                DistinctKeys(x)}}

CoreMatrices == {"Fe", "Al", "Unobtainium"}
CoreHeats == {"Normalizing", "Annealing", "Mystery"}
YsHeats == DOMAIN HT_YS_FRAC \cup {"Mystery"}
HvInputs ==
    {Dec(1000, 1), Dec(200, 1), Dec(12000, 1), Dec(20000, 1), Dec(50, 1),
     Dec(-35, 1), Dec(2204, 1), Zero(0), Inf(0)}
UtsInputs ==
    {Dec(3450, 1), Dec(690, 1), Dec(41400, 1), Dec(50000, 1), Dec(-100, 1),
     Dec(76038, 2), Zero(0), Inf(0), Huge}

(***************************************************************************)
(* Streamlit app (src/app.py, lines 69-110).  Every interaction runs the   *)
(* script once: the form of the first tab, then the batch loop of the      *)
(* second one when a file is uploaded.                                     *)
(***************************************************************************)
NoFile == [cols |-> <<>>, rows |-> <<>>]

\* Cells of the table read from the CSV: a float (NaN when the cell is empty),
\* the text of a categorical cell, or, in a column holding some text that is
\* no number, the characters of the cell.
FloatCell(x) == [t |-> "float", v |-> x, s |-> "", c |-> <<>>]
StrCell(str) == [t |-> "str", v |-> None, s |-> str, c |-> <<>>]
TextCell(chars) == [t |-> "text", v |-> None, s |-> "", c |-> chars]
Missing == FloatCell(NaN)

\* pd.isna(v)
IsNa(cell) == cell.t = "float" /\ IsNaN(cell.v)

DigitVal ==
    ("0" :> 0) @@ ("1" :> 1) @@ ("2" :> 2) @@ ("3" :> 3) @@ ("4" :> 4)
    @@ ("5" :> 5) @@ ("6" :> 6) @@ ("7" :> 7) @@ ("8" :> 8) @@ ("9" :> 9)

\* the digits and the point of an unsigned decimal: <<ok, n, d, digits>> with n
\* the digits read as an integer, d the number of them after the point
RECURSIVE ScanDecimal(_, _, _, _, _)
ScanDecimal(chars, n, d, point, digits) ==
    IF chars = <<>> THEN <<digits > 0, n, d>>
    ELSE IF Head(chars) \in DOMAIN DigitVal
         THEN ScanDecimal(Tail(chars), 10 * n + DigitVal[Head(chars)],
                          IF point THEN d + 1 ELSE d, point, digits + 1)
    ELSE IF Head(chars) = "." /\ ~point
         THEN ScanDecimal(Tail(chars), n, d, TRUE, digits)
    ELSE <<FALSE, 0, 0>>

ValueError == [k |-> "ValueError", s |-> 0, m |-> <<>>, e |-> 0]

FloatOfScan(sign, scan) ==
    IF ~scan[1] THEN ValueError
    ELSE IF scan[2] = 0 THEN Zero(sign)
    ELSE FDivNat(sign, NFromInt(scan[2]), 0, NPow10(scan[3]), 0)

\* float(text) for a signed decimal without exponent; any other text of the
\* model's alphabet is no number
ParseFloat(chars) ==
    IF chars # <<>> /\ Head(chars) = "-"
    THEN FloatOfScan(1, ScanDecimal(Tail(chars), 0, 0, FALSE, 0))
    ELSE IF chars # <<>> /\ Head(chars) = "+"
    THEN FloatOfScan(0, ScanDecimal(Tail(chars), 0, 0, FALSE, 0))
    ELSE FloatOfScan(0, ScanDecimal(chars, 0, 0, FALSE, 0))

\* float(v) of a cell
PyFloat(cell) == IF cell.t = "float" THEN cell.v ELSE ParseFloat(cell.c)

\* row.get(key, default) of a categorical column
RowGet(cols, row, key, default) ==
    IF \E i \in DOMAIN cols : cols[i] = key
    THEN row[CHOOSE i \in DOMAIN cols : cols[i] = key].s
    ELSE default

\* {k: float(v) for k, v in row.items() if k not in ["matrix", "heat"] and not
\* pd.isna(v)}, from column i on; ValueError as soon as a float(v) raises
RECURSIVE RowComp(_, _, _, _)
RowCompPut(cols, row, i, acc, x) ==
    IF x = ValueError THEN ValueError
    ELSE RowComp(cols, row, i + 1, Append(acc, <<cols[i], x>>))
RowComp(cols, row, i, acc) ==
    IF i > Len(cols) THEN acc
    ELSE IF cols[i] \in {"matrix", "heat"} \/ IsNa(row[i])
         THEN RowComp(cols, row, i + 1, acc)
    ELSE RowCompPut(cols, row, i, acc, PyFloat(row[i]))

\* the form's loop: comp[el] = pct for every field with an element name
RECURSIVE FormComp(_, _)
FormComp(fields, acc) ==
    IF fields = <<>> THEN acc
    ELSE FormComp(Tail(fields),
                  IF Head(fields)[1] # ""
                  THEN DictSet(acc, Head(fields)[1], Head(fields)[2])
                  ELSE acc)

\* hv, uts and ys of one alloy, as both tabs compute them
WithYs(h, u, ht) == <<h, u, uts_to_ys(u, ht)>>
WithUts(h, ht) == WithYs(h, hv_to_uts(h), ht)
Pipeline(m, c, ht) == WithUts(estimate_hv(m, c, ht), ht)

ResultRecord(p) == [Estimated_HV |-> p[1], UTS_MPa |-> p[2], YS_MPa |-> p[3]]

\* pd.concat([df, pd.DataFrame(results)], axis=1): row i next to result i
Concat(rows, res) ==
    [i \in 1..(IF Len(rows) > Len(res) THEN Len(rows) ELSE Len(res)) |->
        [row |-> IF i <= Len(rows) THEN rows[i] ELSE <<>>,
         result |-> IF i <= Len(res) THEN <<res[i]>> ELSE <<>>]]

(***************************************************************************)
(* Inputs of the app.                                                      *)
(***************************************************************************)
\* what the form's fields can hold: weight-percents within [0, 100], and
\* possibly no element name
FormEntries == {<<"C", Dec(4, 1)>>, <<"W", Dec(1000, 1)>>, <<"", Dec(50, 1)>>}
RECURSIVE AllSeqsUpTo(_, _)
AllSeqsUpTo(S, n) ==
    IF n = 0 THEN {<<>>}
    ELSE LET shorter == AllSeqsUpTo(S, n - 1)
         IN shorter \cup {Append(q, x) : q \in shorter, x \in S}
Forms == AllSeqsUpTo(FormEntries, MaxFields)

\* tables whose element columns are all numbers
NumericCols == <<"matrix", "heat", "C", "W", "O">>
NumericRows ==
    {<<StrCell("Fe"), StrCell("Normalizing"), FloatCell(Dec(4, 1)), Missing, Missing>>,
     <<StrCell("Unobtainium"), StrCell("Mystery"), Missing, FloatCell(Huge),
       FloatCell(Dec(-25, 1))>>,
     <<StrCell("Al"), StrCell("Annealing"), FloatCell(Dec(10, 1)), Missing,
       FloatCell(Dec(50, 1))>>}

\* tables with a Cr column that holds text which is no number
TextCols == <<"matrix", "heat", "C", "Cr">>
BadRow ==
    <<StrCell("Fe"), StrCell("Hardening"), FloatCell(Dec(2, 1)),
      TextCell(<<"a", "b", "c">>)>>
TextRows ==
    {BadRow,
     <<StrCell("Fe"), StrCell("Hardening"), FloatCell(Dec(2, 1)),
       TextCell(<<"1", "8", ".", "5">>)>>,
     <<StrCell("Cu"), StrCell("Quenching"), Missing, Missing>>}

\* tables without the matrix and heat columns
BareCols == <<"C", "Cr">>
BareRows ==
    {<<FloatCell(Dec(2, 1)), FloatCell(Dec(15, 1))>>, <<Missing, Missing>>}

Frames ==
    {[cols |-> NumericCols, rows |-> r] : r \in AllSeqsUpTo(NumericRows, MaxRows)}
    \cup {[cols |-> TextCols, rows |-> r] :
             r \in {x \in AllSeqsUpTo(TextRows, MaxRows) :
                       \E i \in DOMAIN x : x[i] = BadRow}}
    \cup {[cols |-> BareCols, rows |-> r] : r \in AllSeqsUpTo(BareRows, MaxRows)}

(***************************************************************************)
(* The app's runs.                                                         *)
(***************************************************************************)
InitApp ==
    /\ matrix = "" /\ heat = "" /\ comp = <<>>
    /\ hv = None /\ uts = None /\ ys = None
    /\ df = NoFile /\ row_i = 0 /\ results = <<>> /\ out = <<>>
    /\ pc = "idle"

Init ==
    /\ compensated \in BOOLEAN
    /\ fn = "none" /\ arg = <<>> /\ ret = None
    /\ InitApp

\* hv, uts, ys := the pipeline's values
SetPrediction(p) == hv' = p[1] /\ uts' = p[2] /\ ys' = p[3]

\* A run with the Predict button pressed and no file uploaded (lines 70-90)
Predict ==
    \E m \in DOMAIN BASE_HV, h \in DOMAIN HT_HV_MULT, fields \in Forms :
        /\ pc = "idle"
        /\ matrix' = m /\ heat' = h
        /\ comp' = FormComp(fields, <<>>)
        /\ SetPrediction(Pipeline(m, comp', h))
        /\ pc' = "shown"
        /\ UNCHANGED <<compensated, coreVars, df, row_i, results, out>>

\* A run after a file is uploaded, up to the head of the loop (lines 70-98):
\* the form is at its defaults and Predict is not pressed
Upload ==
    \E f \in Frames :
        /\ pc = "idle"
        /\ matrix' = "Fe" /\ heat' = "Annealing" /\ comp' = <<>>
        /\ df' = f /\ row_i' = 0 /\ results' = <<>>
        /\ pc' = "loop"
        /\ UNCHANGED <<compensated, coreVars, hv, uts, ys, out>>

\* the body of the loop once the row's composition c is built, or float() raised
RowDone(m, h, c) ==
    IF c = ValueError
    THEN /\ pc' = "error"
         /\ UNCHANGED <<comp, hv, uts, ys, row_i, results>>
    ELSE /\ comp' = c
         /\ SetPrediction(Pipeline(m, c, h))
         /\ results' = Append(results, ResultRecord(<<hv', uts', ys'>>))
         /\ row_i' = row_i + 1
         /\ pc' = "loop"

\* One iteration of the batch loop (lines 99-106)
BatchRow ==
    /\ pc = "loop" /\ row_i < Len(df.rows)
    /\ matrix' = RowGet(df.cols, df.rows[row_i + 1], "matrix", "Fe")
    /\ heat' = RowGet(df.cols, df.rows[row_i + 1], "heat", "Normalizing")
    /\ RowDone(matrix', heat', RowComp(df.cols, df.rows[row_i + 1], 1, <<>>))
    /\ UNCHANGED <<compensated, coreVars, df, out>>

\* After the loop (lines 107-110)
BatchEnd ==
    /\ pc = "loop" /\ row_i = Len(df.rows)
    /\ out' = Concat(df.rows, results)
    /\ pc' = "done"
    /\ UNCHANGED <<compensated, coreVars, matrix, heat, comp, hv, uts, ys,
                   df, row_i, results>>

\* The session ends and a new one starts
Reset ==
    /\ pc \in {"shown", "done", "error"}
    /\ matrix' = "" /\ heat' = "" /\ comp' = <<>>
    /\ hv' = None /\ uts' = None /\ ys' = None
    /\ df' = NoFile /\ row_i' = 0 /\ results' = <<>> /\ out' = <<>>
    /\ pc' = "idle"
    /\ UNCHANGED <<compensated, coreVars>>

Next == Predict \/ Upload \/ BatchRow \/ BatchEnd \/ Reset

Spec == Init /\ [][Next]_vars

(***************************************************************************)
(* The core called directly, on any input, one call at a time.             *)
(***************************************************************************)
InitCore ==
    /\ compensated \in BOOLEAN
    /\ fn = "none" /\ arg = <<>> /\ ret = None
    /\ InitApp

CallEstimateHv ==
    \E m \in CoreMatrices, c \in Compositions, h \in CoreHeats :
        /\ fn = "none"
        /\ fn' = "estimate_hv"
        /\ arg' = [matrix |-> m, composition |-> c, heat_treatment |-> h]
        /\ ret' = estimate_hv(m, c, h)
        /\ UNCHANGED <<compensated, appVars>>

CallHvToUts ==
    \E x \in HvInputs :
        /\ fn = "none"
        /\ fn' = "hv_to_uts"
        /\ arg' = [hv |-> x]
        /\ ret' = hv_to_uts(x)
        /\ UNCHANGED <<compensated, appVars>>

CallUtsToYs ==
    \E u \in UtsInputs, h \in YsHeats :
        /\ fn = "none"
        /\ fn' = "uts_to_ys"
        /\ arg' = [uts |-> u, ht |-> h]
        /\ ret' = uts_to_ys(u, h)
        /\ UNCHANGED <<compensated, appVars>>

\* the caller drops the result and is ready for its next call
Return ==
    /\ fn # "none"
    /\ fn' = "none" /\ arg' = <<>> /\ ret' = None
    /\ UNCHANGED <<compensated, appVars>>

NextCore == CallEstimateHv \/ CallHvToUts \/ CallUtsToYs \/ Return

SpecCore == InitCore /\ [][NextCore]_vars

(***************************************************************************)
(* Properties of the core (under SpecCore).                                *)
(***************************************************************************)
InEstimate == fn = "estimate_hv"

\* the raw hardness of the call in progress
Raw == raw_hv(arg.matrix, arg.composition, arg.heat_treatment)

\* estimate_hv was called with (m, c, h)
Estimating(m, c, h) ==
    InEstimate /\ arg = [matrix |-> m, composition |-> c, heat_treatment |-> h]

OnlyCarbon(x) == << <<"C", x>> >>

\* C1: whatever the matrix, the composition and the heat treatment, the value
\* estimate_hv returns lies in [20.0, 1200.0]; it is exactly 1200.0 when the
\* raw hardness exceeds 1200 and exactly 20.0 when the raw hardness is below 20.
C1_Clamped ==
    InEstimate =>
        /\ FGe(ret, HV_MIN) /\ FLe(ret, HV_MAX)
        /\ (FGt(Raw, HV_MAX) => ret = HV_MAX)
        /\ (FLt(Raw, HV_MIN) => ret = HV_MIN)

\* a finite raw hardness above 1200 came back as 1200.0
C1_Witness ==
    InEstimate /\ IsFinite(Raw) /\ FGt(Raw, HV_MAX) /\ ret = HV_MAX

\* C2 (as amended): for "Fe", "Normalizing" and a composition of carbon only,
\* estimate_hv returns base 120 plus the carbon contribution: 240.0 for
\* {"C": 0.2} and 320.0 for {"C": 0.4}.
C2_IronBase120 ==
    /\ Estimating("Fe", OnlyCarbon(Dec(2, 1)), "Normalizing") => ret = Dec(2400, 1)
    /\ Estimating("Fe", OnlyCarbon(Dec(4, 1)), "Normalizing") => ret = Dec(3200, 1)

C2_Witness ==
    Estimating("Fe", OnlyCarbon(Dec(4, 1)), "Normalizing") /\ ret = Dec(3200, 1)

\* C2 as stated: base 100, so 220.0 for {"C": 0.2} and 300.0 for {"C": 0.4}
C2_AsStated ==
    /\ Estimating("Fe", OnlyCarbon(Dec(2, 1)), "Normalizing") => ret = Dec(2200, 1)
    /\ Estimating("Fe", OnlyCarbon(Dec(4, 1)), "Normalizing") => ret = Dec(3000, 1)

IsFloat(x) == x.k \in {"fin", "inf", "nan"}

\* C3: an unknown matrix or heat treatment is no error: estimate_hv treats an
\* unknown matrix as one of base 100 (like "Ti") and an unknown heat treatment
\* as one of multiplier 1.0 (like "Normalizing"), uts_to_ys treats an unknown
\* heat treatment as one of fraction 0.8 (like "Carburizing"), and
\* estimate_hv("Unobtainium", {}, "Mystery") is 100.0.
C3_Defaults ==
    /\ fn # "none" => IsFloat(ret)
    /\ (InEstimate /\ arg.matrix \notin DOMAIN BASE_HV)
          => ret = estimate_hv("Ti", arg.composition, arg.heat_treatment)
    /\ (InEstimate /\ arg.heat_treatment \notin DOMAIN HT_HV_MULT)
          => ret = estimate_hv(arg.matrix, arg.composition, "Normalizing")
    /\ (fn = "uts_to_ys" /\ arg.ht \notin DOMAIN HT_YS_FRAC)
          => ret = uts_to_ys(arg.uts, "Carburizing")
    /\ Estimating("Unobtainium", <<>>, "Mystery") => ret = Dec(1000, 1)

C3_Witness == Estimating("Unobtainium", <<>>, "Mystery") /\ ret = Dec(1000, 1)

\* the composition of the call without its leading carbon entry
NoCarbon == Tail(arg.composition)

\* C4: for a matrix other than "Fe" the "C" entry adds 40.0 * C to the hardness
\* before the multiplier and is left out of the generic sum (its factor 180 is
\* never applied); estimate_hv("Al", {"C": 1.0}, "Annealing") is 88.0.
C4_FlatCarbon ==
    /\ (InEstimate /\ arg.matrix # "Fe" /\ DictHas(arg.composition, "C")) =>
          /\ contrib(arg.composition) = contrib(NoCarbon)
          /\ Raw = FMul(FAdd(FAdd(FInt(TableGet(BASE_HV, arg.matrix, 100)),
                                  FMul(Dec(400, 1), arg.composition[1][2])),
                             contrib(NoCarbon)),
                        TableGet(HT_HV_MULT, arg.heat_treatment, Dec(10, 1)))
    /\ Estimating("Al", OnlyCarbon(Dec(10, 1)), "Annealing") => ret = Dec(880, 1)
    /\ Estimating("Unobtainium", OnlyCarbon(Dec(4, 1)), "Mystery") => ret = Dec(1160, 1)

\* carbon next to other elements in a matrix that is not iron
C4_Witness ==
    /\ InEstimate /\ arg.matrix = "Al" /\ Len(arg.composition) > 1
    /\ arg.composition[1][1] = "C" /\ IsFinite(ret) /\ FLt(ret, HV_MAX)
    /\ FGt(ret, HV_MIN)

\* |a - b| of two naturals
NDist(a, b) == IF NCmp(a, b) >= 0 THEN NSub(a, b) ELSE NSub(b, a)

\* r is a float nearest to M * 2^E: M * 2^E is within half a unit of r's last place
IsNearest(r, M, E) ==
    /\ r.e >= E
    /\ NCmp(NShl(NDist(M, NShl(r.m, r.e - E)), 1), NShl(<<1>>, r.e - E)) <= 0

\* ret is the correctly rounded product of x and y
IsProduct(x, y) ==
    IF IsInf(x) THEN ret = x
    ELSE IF IsZero(x) THEN IsZero(ret)
    ELSE /\ IsFinite(ret) /\ ret.s = Xor(x.s, y.s)
         /\ IsNearest(ret, NMul(x.m, y.m), x.e + y.e)

HvCalled(x) == fn = "hv_to_uts" /\ arg.hv = x

\* C5: hv_to_uts returns hv * 3.45, neither clamped nor rounded: 100.0 gives
\* 345.0, 2000.0 gives 6900.0 and 5.0 gives 17.25 (outside [20, 1200] the
\* value is scaled, not saturated), 220.4 gives 760.3800000000001.
C5_Scaled ==
    /\ fn = "hv_to_uts" => IsProduct(arg.hv, Dec(345, 2))
    /\ HvCalled(Dec(1000, 1)) => ret = Dec(3450, 1)
    /\ HvCalled(Dec(20000, 1)) => ret = Dec(69000, 1)
    /\ HvCalled(Dec(50, 1)) => ret = Dec(1725, 2)
    /\ HvCalled(Dec(2204, 1)) => (FGt(ret, Dec(76038, 2)) /\ FLt(ret, Dec(76039, 2)))

C5_Witness == HvCalled(Dec(20000, 1)) /\ ret = Dec(69000, 1)

YsCalled(u, h) == fn = "uts_to_ys" /\ arg.uts = u /\ arg.ht = h

\* C6: uts_to_ys returns uts times the entry of HT_YS_FRAC for the heat
\* treatment, or times 0.8 when there is none, neither clamped nor rounded:
\* (345.0, "Hardening") gives 269.1.
C6_Fraction ==
    /\ (fn = "uts_to_ys" /\ arg.ht \in DOMAIN HT_YS_FRAC)
          => IsProduct(arg.uts, HT_YS_FRAC[arg.ht])
    /\ (fn = "uts_to_ys" /\ arg.ht \notin DOMAIN HT_YS_FRAC)
          => IsProduct(arg.uts, Dec(8, 1))
    /\ YsCalled(Dec(3450, 1), "Hardening") => ret = Dec(2691, 1)
    /\ YsCalled(Dec(3450, 1), "Mystery") => ret = Dec(2760, 1)
    /\ YsCalled(Dec(50000, 1), "Nitriding") => ret = Dec(45000, 1)
    /\ YsCalled(Dec(76038, 2), "Annealing") => ret = Dec(418209, 3)

C6_Witness == YsCalled(Dec(3450, 1), "Hardening") /\ ret = Dec(2691, 1)

\* the orders in which a dict of the same entries can iterate
Orders(d) ==
    {[i \in DOMAIN d |-> d[p[i]]] :
        p \in {q \in [DOMAIN d -> DOMAIN d] : \A i, j \in DOMAIN d : q[i] = q[j] => i = j}}

NonCarbon(d) == Cardinality(Keys(d) \ {"C"})

\* the call returned what every iteration order of its composition gives
SameInEveryOrder ==
    \A d \in Orders(arg.composition) :
        estimate_hv(arg.matrix, d, arg.heat_treatment) = ret

\* C7 (as amended): for a composition of exactly two non-carbon elements (known
\* or unknown, of positive or negative factor), estimate_hv returns the same
\* value for every iteration order of the composition.
C7_TwoElements ==
    (InEstimate /\ NonCarbon(arg.composition) = 2) => SameInEveryOrder

\* an unknown element and one of negative factor, the result not saturated
C7_Witness ==
    /\ InEstimate /\ Keys(arg.composition) = {"Xx", "O"}
    /\ FGt(ret, HV_MIN) /\ FLt(ret, HV_MAX)

\* C7 as stated: the same value for every iteration order of a composition of
\* more than one non-carbon element
C7_AsStated ==
    (InEstimate /\ NonCarbon(arg.composition) > 1) => SameInEveryOrder

\* clamp first, round second
ClampThenRound(x) == PyRound1(PyMax(HV_MIN, PyMin(x, HV_MAX)))

\* C8: estimate_hv returns the raw hardness clamped to [20.0, 1200.0] and then
\* rounded to one decimal: rounding first and clamping second, as the code
\* does, gives the same value, also for a raw hardness within 0.05 of a bound;
\* the result is a multiple of 0.1 (the float nearest to a whole number of
\* tenths).
C8_ClampThenRound ==
    InEstimate =>
        /\ ret = ClampThenRound(Raw)
        /\ IsFinite(ret) /\ ret = FromTenths(0, Tenths(ret))

\* a raw hardness that is not a bound but within 0.05 of one
NearBound(x, b) == x # b /\ FLt(FAbs(FSub(x, b)), Dec(5, 2))
C8_Witness == InEstimate /\ (NearBound(Raw, HV_MIN) \/ NearBound(Raw, HV_MAX))

(***************************************************************************)
(* Properties of the app (under Spec).                                     *)
(***************************************************************************)
\* the batch loop ran to its end and every record of the table has its result
AllRowsDone ==
    /\ Len(out) = Len(df.rows)
    /\ \A i \in DOMAIN out : out[i].row = df.rows[i] /\ Len(out[i].result) = 1

\* the composition of a record without its missing and its non-numeric cells
RECURSIVE NumericComp(_, _, _, _)
NumericComp(cols, row, i, acc) ==
    IF i > Len(cols) THEN acc
    ELSE IF cols[i] \in {"matrix", "heat"} \/ IsNa(row[i])
            \/ PyFloat(row[i]) = ValueError
         THEN NumericComp(cols, row, i + 1, acc)
    ELSE NumericComp(cols, row, i + 1, Append(acc, <<cols[i], PyFloat(row[i])>>))

\* C9: a record with a non-numeric composition cell does not abort the batch:
\* the loop never fails, the cell is left out of the record's composition, and
\* at the end every record of the table has its HV, UTS and YS.
C9_BadCellSkipped ==
    /\ pc # "error"
    /\ (pc = "loop" /\ row_i > 0)
          => comp = NumericComp(df.cols, df.rows[row_i], 1, <<>>)
    /\ pc = "done" => AllRowsDone

Positive(x) == FGt(x, Zero(0))

GoodPrediction(h, u, y) ==
    /\ Positive(h) /\ Positive(u) /\ Positive(y)
    /\ FLt(y, u)
    /\ FGe(u, Dec(690, 1)) /\ FLe(u, Dec(41400, 1))

\* C10: whatever the matrix, the composition and the heat treatment, the
\* pipeline hv = estimate_hv(...), uts = hv_to_uts(hv), ys = uts_to_ys(uts,
\* heat) gives positive values with ys < uts and uts within [69, 4140].
C10_Pipeline ==
    /\ hv # None => GoodPrediction(hv, uts, ys)
    /\ \A i \in DOMAIN results :
          GoodPrediction(results[i].Estimated_HV, results[i].UTS_MPa,
                         results[i].YS_MPa)

\* a batch record of unknown matrix and heat treatment, saturated at 1200
C10_Witness ==
    /\ pc = "loop" /\ row_i > 0 /\ matrix = "Unobtainium" /\ heat = "Mystery"
    /\ hv = HV_MAX /\ uts = Dec(41400, 1) /\ ys = Dec(33120, 1)

====
